---------------------------- MODULE Spec2Model ----------------------------
(***************************************************************************)
(* Model of the Marwin data assistant: the vector retrieval subsystem      *)
(* (vector_store.py, load_vector_store.py, embedding_utils.py) and the     *)
(* JSON conversation memory (chat_memory.py) as driven by app.py.          *)
(*                                                                         *)
(* Four specifications share the variables:                                *)
(*   SpecBuild   build_faiss_index on a batch of embeddings                *)
(*   Spec        search / semantic_search on a loaded index + metadata     *)
(*   SpecStore   save_index / load_index on one bundle file                *)
(*   SpecMemory  append / feedback / recent / clear on the memory file     *)
(*                                                                         *)
(* Embedding components are float32 in the program; the model uses small   *)
(* integers (all exactly representable in float32), so the float32 cast of *)
(* faiss' add/search is the identity on every value of the model.          *)
(***************************************************************************)
EXTENDS Integers, Sequences, FiniteSets, TLC

VARIABLES
    pc,           \* position of the modelled call
    raised,       \* exception the call ended with, "none" when it returned
    embeddings,   \* ndarray handed to build_faiss_index
    index,        \* faiss.IndexFlatL2 held in memory
    df_metadata,  \* pandas DataFrame held in memory
    q_vec,        \* embed([query])[0] of the current search
    k,            \* k of the current search
    D,            \* D[0] returned by index.search
    I,            \* I[0] returned by index.search
    results,      \* list returned by search / semantic_search
    disk,         \* bundle file at filepath
    diskBefore,   \* bundle file as it was when save_index was called
    loaded,       \* (df_metadata, index) returned by load_index
    memory_file,  \* chat_memory.json
    memBefore,    \* chat_memory.json as it was when the last operation began
    clicked,      \* the turn whose feedback button was used, and the feedback
    n,            \* n of the last get_recent_memory call
    recent,       \* list returned by get_recent_memory
    uuid_next     \* source of fresh uuid4 values

vars == << pc, raised, embeddings, index, df_metadata, q_vec, k, D, I, results,
           disk, diskBefore, loaded, memory_file, memBefore, clicked, n, recent,
           uuid_next >>

retrievalVars == << embeddings, index, df_metadata, q_vec, k, D, I, results >>
storeVars     == << disk, diskBefore, loaded >>
memoryVars    == << memory_file, memBefore, clicked, n, recent, uuid_next >>

---------------------------------------------------------------------------
(* Bounds *)

\* most vectors in a batch / rows in a metadata table
MaxN == 3
\* largest k asked of a search
MaxK == 4
\* most vectors / rows of a pair handed to save_index
MaxStored == 2
\* most turns ever appended to the memory file
MaxTurns == 3
\* largest n asked of get_recent_memory
MaxRecent == 4

\* values of one embedding component
Coord == 0 .. 1
\* dimensionalities of the embedding provider
Dims == {1, 2}

Min(a, b) == IF a <= b THEN a ELSE b
Max(a, b) == IF a >= b THEN a ELSE b

\* all sequences over S of length lo..hi
SeqsOf(S, lo, hi) == UNION { [1 .. m -> S] : m \in lo .. hi }

Vectors(d) == [1 .. d -> Coord]

---------------------------------------------------------------------------
(* numpy arrays and pandas frames *)

\* np.array(vectors, dtype="float32") as embed returns it: shape (N, d), and
\* shape (0,) for no vectors at all
ndarray(rows) ==
    [ shape |-> IF Len(rows) = 0 THEN << 0 >> ELSE << Len(rows), Len(rows[1]) >>,
      rows  |-> rows ]

Arrays == { ndarray(rows) : rows \in UNION { SeqsOf(Vectors(d), 0, MaxN) : d \in Dims } }

\* metadata rows: doc text and its TABLE_NAME / COLUMN_NAME path; RowAt(i) is
\* the row describing the i-th column of the catalogue, two columns a table
DocNames    == << "A", "B", "C", "D", "E", "F" >>
ColumnNames == << "c1", "c2", "c3", "c4", "c5", "c6" >>
RowAt(i) == [ doc |-> DocNames[i],
              TABLE_NAME |-> IF i <= 2 THEN "t1" ELSE IF i <= 4 THEN "t2" ELSE "t3",
              COLUMN_NAME |-> ColumnNames[i] ]
MetaRows == { RowAt(1), RowAt(3) }

RangeIndex(m) == [ i \in 1 .. m |-> i - 1 ]

\* a pandas DataFrame: its row labels and its rows, in positional order
Frame(labels, rows) == [ labels |-> labels, rows |-> rows ]

\* pd.DataFrame(dict of equal-length lists): one row per list position, fresh
\* RangeIndex labels
DataFrame(data) ==
    LET m == Len(data.doc)
    IN  Frame(RangeIndex(m),
              [ i \in 1 .. m |-> [ doc         |-> data.doc[i],
                                   TABLE_NAME  |-> data.TABLE_NAME[i],
                                   COLUMN_NAME |-> data.COLUMN_NAME[i] ] ])

\* a mutated to_dict: the two path columns are exchanged
to_dict_columns_swapped(df) ==
    [ doc         |-> [ i \in 1 .. Len(df.rows) |-> df.rows[i].doc ],
      TABLE_NAME  |-> [ i \in 1 .. Len(df.rows) |-> df.rows[i].COLUMN_NAME ],
      COLUMN_NAME |-> [ i \in 1 .. Len(df.rows) |-> df.rows[i].TABLE_NAME ] ]

\* DataFrame.to_dict(orient="list"): column name -> list of the column's values
to_dict(df) ==
    [ doc         |-> [ i \in 1 .. Len(df.rows) |-> df.rows[i].doc ],
      TABLE_NAME  |-> [ i \in 1 .. Len(df.rows) |-> df.rows[i].TABLE_NAME ],
      COLUMN_NAME |-> [ i \in 1 .. Len(df.rows) |-> df.rows[i].COLUMN_NAME ] ]

\* Python / pandas positional indexing: seq[idx] and Series.iloc[idx]; a
\* negative idx counts from the end
InRange(seq, idx) == -Len(seq) <= idx /\ idx < Len(seq)
getitem(seq, idx) == IF idx < 0 THEN seq[Len(seq) + idx + 1] ELSE seq[idx + 1]

---------------------------------------------------------------------------
(* faiss.IndexFlatL2 *)

\* faiss.IndexFlatL2(dim): an empty flat index
IndexFlatL2(dim) == [ d |-> dim, ntotal |-> 0, xb |-> << >> ]
\* the value of an index variable that holds no index yet
NoIndex == IndexFlatL2(0)

RECURSIVE Flatten(_)
\* row-major layout of a 2-D array
Flatten(rows) == IF rows = << >> THEN << >> ELSE Head(rows) \o Flatten(Tail(rows))

\* a mutated add: the batch is stored last row first
index_add_reversed(ix, x) ==
    LET m == Len(x.rows)
    IN  [ ix EXCEPT !.ntotal = @ + m,
                    !.xb = @ \o Flatten([ i \in 1 .. m |-> x.rows[m + 1 - i] ]) ]

\* index.add(x): appends the rows of x, in order, to the flat storage
index_add(ix, x) ==
    [ ix EXCEPT !.ntotal = @ + Len(x.rows), !.xb = @ \o Flatten(x.rows) ]

\* the vector stored at a 0-based position
reconstruct(ix, pos) == SubSeq(ix.xb, pos * ix.d + 1, (pos + 1) * ix.d)

RECURSIVE SumSq(_, _, _)
SumSq(x, y, i) == IF i = 0 THEN 0 ELSE (x[i] - y[i]) * (x[i] - y[i]) + SumSq(x, y, i - 1)
\* squared Euclidean distance, the metric of IndexFlatL2
L2sqr(x, y) == SumSq(x, y, Len(x))

\* distance faiss reports for a missing neighbour (label -1)
FLT_MAX == 2147483647

\* index.search(np.array([q]), kk) for one query row: the faiss wrapper
\* asserts the dimensionality and k > 0; the flat index scans every stored
\* vector and keeps the kk smallest (distance, position) pairs in ascending
\* order; result slots beyond ntotal hold label -1 and distance FLT_MAX
IndexFlatL2_search(ix, q, kk) ==
    IF Len(q) # ix.d \/ kk <= 0
    THEN [ raised |-> "AssertionError", D |-> << >>, I |-> << >> ]
    ELSE LET P == 0 .. ix.ntotal - 1
             dist == [ p \in P |-> L2sqr(q, reconstruct(ix, p)) ]
             Before(a, b) == dist[a] < dist[b] \/ (dist[a] = dist[b] /\ a < b)
             Rank(p) == Cardinality({ o \in P : Before(o, p) })
             II == [ j \in 1 .. kk |->
                       IF j <= ix.ntotal THEN CHOOSE p \in P : Rank(p) = j - 1 ELSE -1 ]
         IN  [ raised |-> "none",
               D |-> [ j \in 1 .. kk |-> IF II[j] = -1 THEN FLT_MAX ELSE dist[II[j]] ],
               I |-> II ]

---------------------------------------------------------------------------
(* vector_store.build_faiss_index *)

\* dim = embeddings.shape[1] raises IndexError on a 1-D array; otherwise a new
\* flat index holding the rows
build_faiss_index(emb) ==
    IF Len(emb.shape) < 2
    THEN [ raised |-> "IndexError", index |-> NoIndex ]
    ELSE [ raised |-> "none", index |-> index_add(IndexFlatL2(emb.shape[2]), emb) ]

---------------------------------------------------------------------------
(* embedding_utils.search and load_vector_store.semantic_search *)

Failed(err, r) == [ raised |-> err, D |-> r.D, I |-> r.I, results |-> << >> ]

\* a mutated result loop: the pairs of zip(D[0], I[0]) are taken last first
search_reversed(q, df, ix, kk) ==
    LET r == IndexFlatL2_search(ix, q, kk)
    IN  IF r.raised # "none" THEN Failed(r.raised, r)
        ELSE IF \E j \in 1 .. kk : ~InRange(df.rows, r.I[j]) THEN Failed("IndexError", r)
        ELSE [ raised |-> "none", D |-> r.D, I |-> r.I,
               results |-> [ j \in 1 .. kk |->
                   [ distance |-> r.D[kk + 1 - j],
                     doc      |-> getitem(df.rows, r.I[kk + 1 - j]).doc,
                     table    |-> getitem(df.rows, r.I[kk + 1 - j]).TABLE_NAME,
                     column   |-> getitem(df.rows, r.I[kk + 1 - j]).COLUMN_NAME ] ] ]

\* search(query, df_metadata, index, k), q being embed([query])[0]: one result
\* per (dist, idx) of zip(D[0], I[0]), its fields read with .iloc[idx]
search(q, df, ix, kk) ==
    LET r == IndexFlatL2_search(ix, q, kk)
    IN  IF r.raised # "none" THEN Failed(r.raised, r)
        ELSE IF \E j \in 1 .. kk : ~InRange(df.rows, r.I[j]) THEN Failed("IndexError", r)
        ELSE [ raised |-> "none", D |-> r.D, I |-> r.I,
               results |-> [ j \in 1 .. kk |->
                   [ distance |-> r.D[j],
                     doc      |-> getitem(df.rows, r.I[j]).doc,
                     table    |-> getitem(df.rows, r.I[j]).TABLE_NAME,
                     column   |-> getitem(df.rows, r.I[j]).COLUMN_NAME ] ] ]

\* semantic_search(query, k, index, docs, paths): one result per (dist, idx),
\* its fields read with paths[idx] and docs[idx]
semantic_search(q, kk, ix, docs, paths) ==
    LET r == IndexFlatL2_search(ix, q, kk)
    IN  IF r.raised # "none" THEN Failed(r.raised, r)
        ELSE IF \E j \in 1 .. kk : ~InRange(paths, r.I[j]) \/ ~InRange(docs, r.I[j])
             THEN Failed("IndexError", r)
        ELSE [ raised |-> "none", D |-> r.D, I |-> r.I,
               results |-> [ j \in 1 .. kk |->
                   [ distance |-> r.D[j],
                     doc      |-> getitem(docs, r.I[j]),
                     table    |-> getitem(paths, r.I[j])[1],
                     column   |-> getitem(paths, r.I[j])[2] ] ] ]

\* the docs and paths lists the caller derives from the metadata frame
docs_of(df)  == [ i \in 1 .. Len(df.rows) |-> df.rows[i].doc ]
paths_of(df) == [ i \in 1 .. Len(df.rows) |->
                    << df.rows[i].TABLE_NAME, df.rows[i].COLUMN_NAME >> ]

---------------------------------------------------------------------------
(* The bundle file: pickle of {"index": index, "metadata": to_dict(df)} *)

\* pickling a faiss index writes its serialized form: the header (d, ntotal),
\* then the flat vector storage preceded by its size
serialize_index(ix) == << ix.d, ix.ntotal, Len(ix.xb) >> \o ix.xb

\* unpickling reads the header and the storage back
deserialize_index(bytes) ==
    [ d |-> bytes[1], ntotal |-> bytes[2], xb |-> SubSeq(bytes, 4, 3 + bytes[3]) ]

\* open(filepath, "wb"): the file exists and is empty
Truncated == [ exists |-> TRUE, index |-> << >>,
               metadata |-> [ doc |-> << >>, TABLE_NAME |-> << >>, COLUMN_NAME |-> << >> ],
               stop |-> FALSE ]

\* load_index(path): open raises FileNotFoundError on a missing file,
\* pickle.load raises on an empty or truncated stream; otherwise the index and
\* the DataFrame rebuilt from the metadata dict are returned as they are
load_index(file) ==
    IF ~file.exists
    THEN [ raised |-> "FileNotFoundError", index |-> NoIndex, df_metadata |-> Frame(<< >>, << >>) ]
    ELSE IF ~file.stop
    THEN [ raised |-> IF file.index = << >> THEN "EOFError" ELSE "UnpicklingError",
           index |-> NoIndex, df_metadata |-> Frame(<< >>, << >>) ]
    ELSE [ raised |-> "none",
           index |-> deserialize_index(file.index),
           df_metadata |-> DataFrame(file.metadata) ]

---------------------------------------------------------------------------
(* chat_memory.py: the JSON memory file *)

\* read_json(path): [] when the file does not exist, else the stored list
read_json(file) == IF ~file.exists THEN << >> ELSE file.records

\* write_json(path, data): the file holds data
write_json(data) == [ exists |-> TRUE, records |-> data ]

\* Python seq[start:]: a negative start counts from the end, and both ends
\* are clamped to the list
slice_from(seq, start) ==
    LET first == IF start < 0 THEN Max(Len(seq) + start, 0) ELSE Min(start, Len(seq))
    IN  SubSeq(seq, first + 1, Len(seq))

\* get_recent_memory(n, file_path): history[-n:]
get_recent_memory(nn, file) == slice_from(read_json(file), -nn)

\* the record append_to_memory builds (timestamp and matches, which no
\* operation of the module reads, are left out)
NewRecord(id, query, answer) ==
    [ id |-> id, user_id |-> "823471", query |-> query, answer |-> answer,
      feedback_type |-> "None", comment |-> "None" ]

\* append_to_memory(query, answer, top_matches, file_path), id being the
\* fresh str(uuid.uuid4())
append_to_memory(query, answer, file, id) ==
    write_json(Append(read_json(file), NewRecord(id, query, answer)))

\* clear_memory(file_path)
clear_memory == write_json(<< >>)

\* the 1-based place of the first record with this query and
\* this answer, 0 when there is none
first_match(memory, query, answer) ==
    LET hits == { i \in 1 .. Len(memory) :
                    memory[i].query = query /\ memory[i].answer = answer }
    IN  IF hits = {} THEN 0 ELSE CHOOSE i \in hits : \A j \in hits : i <= j

\* update_feedback_to_memory(query, answer, feedback_type, comment,
\* file_path): the first record with this query and answer gets the feedback
\* and the file is rewritten; with no such record nothing is written
update_feedback_to_memory(query, answer, feedback_type, comment, file) ==
    LET memory == read_json(file)
        i == first_match(memory, query, answer)
    IN  IF i = 0 THEN file
        ELSE write_json([ memory EXCEPT ![i].feedback_type = feedback_type,
                                        ![i].comment = comment ])

---------------------------------------------------------------------------
(* Values of the variables a specification does not use *)

NoFrame    == Frame(<< >>, << >>)
NoArray    == ndarray(<< >>)
AbsentFile == [ exists |-> FALSE, index |-> << >>, metadata |-> to_dict(NoFrame),
                stop |-> FALSE ]
NoMemory   == [ exists |-> FALSE, records |-> << >> ]
NoClick    == [ id |-> 0, feedback_type |-> "None", comment |-> "None" ]

RetrievalIdle ==
    /\ embeddings = NoArray /\ index = NoIndex /\ df_metadata = NoFrame
    /\ q_vec = << >> /\ k = 0 /\ D = << >> /\ I = << >> /\ results = << >>
NoLoaded   == [ index |-> NoIndex, df_metadata |-> NoFrame ]
StoreIdle  == disk = AbsentFile /\ diskBefore = AbsentFile /\ loaded = NoLoaded
MemoryIdle ==
    /\ memory_file = NoMemory /\ memBefore = NoMemory /\ clicked = NoClick
    /\ n = 0 /\ recent = << >> /\ uuid_next = 1

---------------------------------------------------------------------------
(* SpecBuild: build_faiss_index(embeddings) *)

InitBuild ==
    /\ pc = "start" /\ raised = "none"
    /\ embeddings \in Arrays
    /\ index = NoIndex /\ df_metadata = NoFrame
    /\ q_vec = << >> /\ k = 0 /\ D = << >> /\ I = << >> /\ results = << >>
    /\ StoreIdle /\ MemoryIdle

Build ==
    /\ pc = "start"
    /\ LET r == build_faiss_index(embeddings)
       IN  /\ raised' = r.raised
           /\ index' = r.index
    /\ pc' = "built"
    /\ UNCHANGED << embeddings, df_metadata, q_vec, k, D, I, results >>
    /\ UNCHANGED << storeVars, memoryVars >>

NextBuild == Build

SpecBuild == InitBuild /\ [][NextBuild]_vars

---------------------------------------------------------------------------
(* Spec: one search on the index and metadata app.py holds after load_index *)

\* the indexes build_faiss_index produces for the batches of the model
BuiltIndexes ==
    { build_faiss_index(a).index : a \in { x \in Arrays : Len(x.shape) = 2 } }

\* the metadata frames load_index rebuilds: fresh RangeIndex labels; the
\* catalogue's first m rows, so that every position has a row of its own
LoadedFrames ==
    { Frame(RangeIndex(m), [ i \in 1 .. m |-> RowAt(i) ]) : m \in 1 .. MaxN }

\* embed([query])[0]
Queries == UNION { Vectors(d) : d \in Dims }

Init ==
    /\ pc = "loaded" /\ raised = "none"
    /\ embeddings = NoArray
    /\ index \in BuiltIndexes
    /\ df_metadata \in LoadedFrames
    /\ q_vec = << >> /\ k = 0 /\ D = << >> /\ I = << >> /\ results = << >>
    /\ StoreIdle /\ MemoryIdle

Returned(q, kk, r) ==
    /\ q_vec' = q /\ k' = kk
    /\ raised' = r.raised /\ D' = r.D /\ I' = r.I /\ results' = r.results
    /\ pc' = "searched"
    /\ UNCHANGED << embeddings, index, df_metadata >>
    /\ UNCHANGED << storeVars, memoryVars >>

Search ==
    /\ pc = "loaded"
    /\ \E q \in Queries, kk \in -1 .. MaxK :
          Returned(q, kk, search(q, df_metadata, index, kk))

SemanticSearch ==
    /\ pc = "loaded"
    /\ \E q \in Queries, kk \in -1 .. MaxK :
          Returned(q, kk, semantic_search(q, kk, index, docs_of(df_metadata),
                                          paths_of(df_metadata)))

Next == Search \/ SemanticSearch

Spec == Init /\ [][Next]_vars

---------------------------------------------------------------------------
(* SpecStore: save_index(index, df_metadata, filepath) and load_index(path) *)
(* on one path                                                             *)

\* row labels of a frame cut out of a larger one
FilteredIndex(m) == [ i \in 1 .. m |-> 2 * i ]

StoredIndexes == { ix \in BuiltIndexes : ix.ntotal <= MaxStored }
\* frames handed to save_index: labelled 0, 1, ... or cut out of a larger frame
StoredFrames ==
    UNION { { Frame(RangeIndex(Len(rows)), rows), Frame(FilteredIndex(Len(rows)), rows) } :
              rows \in SeqsOf(MetaRows, 1, MaxStored) }

\* a complete bundle left at the path by an earlier run
OldBundle ==
    [ exists |-> TRUE,
      index |-> serialize_index(build_faiss_index(ndarray(<< << 1, 1 >> >>)).index),
      metadata |-> to_dict(Frame(RangeIndex(1), << RowAt(2) >>)),
      stop |-> TRUE ]

InitStore ==
    /\ pc = "ready" /\ raised = "none"
    /\ embeddings = NoArray
    /\ index \in StoredIndexes
    /\ df_metadata \in StoredFrames
    /\ q_vec = << >> /\ k = 0 /\ D = << >> /\ I = << >> /\ results = << >>
    /\ disk \in { AbsentFile, OldBundle }
    /\ diskBefore = disk
    /\ loaded = NoLoaded
    /\ MemoryIdle

CanCall == pc \in { "ready", "saved", "save_failed", "loaded", "reloaded" }

\* with open(filepath, "wb") as f: the destination is created or emptied
SaveOpen ==
    /\ CanCall
    /\ diskBefore' = disk
    /\ disk' = Truncated
    /\ raised' = "none"
    /\ pc' = "save_open"
    /\ UNCHANGED << retrievalVars, loaded, memoryVars >>

\* open itself raises (no such directory, no permission): nothing is touched
SaveOpenFails ==
    /\ CanCall
    /\ diskBefore' = disk
    /\ raised' = "OSError"
    /\ pc' = "save_failed"
    /\ UNCHANGED << retrievalVars, disk, loaded, memoryVars >>

\* pickle.dump writes the "index" entry
SaveDumpIndex ==
    /\ pc = "save_open"
    /\ disk' = [ disk EXCEPT !.index = serialize_index(index) ]
    /\ pc' = "save_dumping"
    /\ UNCHANGED << raised, retrievalVars, diskBefore, loaded, memoryVars >>

\* pickle.dump writes the "metadata" entry and the end of the stream; the
\* with block closes the file
SaveDumpMetadata ==
    /\ pc = "save_dumping"
    /\ disk' = [ disk EXCEPT !.metadata = to_dict(df_metadata), !.stop = TRUE ]
    /\ pc' = "saved"
    /\ UNCHANGED << raised, retrievalVars, diskBefore, loaded, memoryVars >>

\* to_dict or pickle.dump raises (an object that cannot be pickled, a full
\* disk): the with block closes the file as it is and the exception leaves
\* save_index
SaveDumpFails ==
    /\ pc \in { "save_open", "save_dumping" }
    /\ raised' = "Exception"
    /\ pc' = "save_failed"
    /\ UNCHANGED << retrievalVars, disk, diskBefore, loaded, memoryVars >>

\* df_metadata, index = load_index(path)
Load ==
    /\ CanCall
    /\ LET r == load_index(disk)
       IN  /\ raised' = r.raised
           /\ loaded' = [ index |-> r.index, df_metadata |-> r.df_metadata ]
    /\ pc' = IF pc = "saved" THEN "reloaded" ELSE "loaded"
    /\ UNCHANGED << retrievalVars, disk, diskBefore, memoryVars >>

NextStore ==
    \/ SaveOpen
    \/ SaveOpenFails
    \/ SaveDumpIndex
    \/ SaveDumpMetadata
    \/ SaveDumpFails
    \/ Load

SpecStore == InitStore /\ [][NextStore]_vars

---------------------------------------------------------------------------
(* SpecMemory: app.py's use of the memory file, and the module's own API *)

UserQueries == { "q1", "q2" }
\* answers the language model gives
Answers == { "a1", "a2" }
Comments == { "too vague" }

\* number of past turns the chat window shows
UI_WINDOW == 50

InitMemory ==
    /\ pc = "start" /\ raised = "none"
    /\ RetrievalIdle /\ StoreIdle /\ MemoryIdle

\* chat input: the answer is generated and the turn appended
Ask ==
    /\ uuid_next <= MaxTurns
    /\ \E query \in UserQueries, answer \in Answers :
          memory_file' = append_to_memory(query, answer, memory_file, uuid_next)
    /\ uuid_next' = uuid_next + 1
    /\ memBefore' = memory_file
    /\ pc' = "appended"
    /\ UNCHANGED << raised, retrievalVars, storeVars, clicked, n, recent >>

Feedback(turn, feedback_type, comment) ==
    /\ memory_file' = update_feedback_to_memory(turn.query, turn.answer,
                                                feedback_type, comment, memory_file)
    /\ clicked' = [ id |-> turn.id, feedback_type |-> feedback_type,
                    comment |-> comment ]
    /\ memBefore' = memory_file
    /\ pc' = "feedback"
    /\ UNCHANGED << raised, retrievalVars, storeVars, n, recent, uuid_next >>

Shown == get_recent_memory(UI_WINDOW, memory_file)

\* the like button of a shown turn
Like ==
    \E t \in 1 .. Len(Shown) : Feedback(Shown[t], "like", "None")

\* the dislike button of a shown turn, then a comment entered
Dislike ==
    \E t \in 1 .. Len(Shown), comment \in Comments :
        Feedback(Shown[t], "dislike", comment)

\* get_recent_memory(n) called with some n >= 0
GetRecent ==
    /\ \E nn \in 0 .. MaxRecent :
          /\ n' = nn
          /\ recent' = get_recent_memory(nn, memory_file)
    /\ memBefore' = memory_file
    /\ pc' = "recent"
    /\ UNCHANGED << raised, retrievalVars, storeVars, memory_file, clicked, uuid_next >>

\* clear_memory()
Clear ==
    /\ memory_file' = clear_memory
    /\ memBefore' = memory_file
    /\ pc' = "cleared"
    /\ UNCHANGED << raised, retrievalVars, storeVars, clicked, n, recent, uuid_next >>

NextMemory ==
    \/ Ask
    \/ Like
    \/ Dislike
    \/ GetRecent
    \/ Clear

SpecMemory == InitMemory /\ [][NextMemory]_vars

---------------------------------------------------------------------------
(* Claims on build_faiss_index *)

\* C8: for every non-empty batch of embeddings of one dimensionality, build
\* returns an index whose size is the batch length and whose position i holds
\* input vector i, for every i
C8_BuildPreservesOrder ==
    (pc = "built" /\ Len(embeddings.rows) >= 1) =>
        /\ raised = "none"
        /\ index.d = embeddings.shape[2]
        /\ index.ntotal = Len(embeddings.rows)
        /\ \A i \in 0 .. Len(embeddings.rows) - 1 :
              reconstruct(index, i) = embeddings.rows[i + 1]

C8_Witness ==
    /\ pc = "built" /\ raised = "none"
    /\ Len(embeddings.rows) = MaxN
    /\ embeddings.shape[2] = 2
    /\ embeddings.rows[1] # embeddings.rows[MaxN]

---------------------------------------------------------------------------
(* Claims on search *)

Searched == pc = "searched"
N == index.ntotal
dist_to(pos) == L2sqr(q_vec, reconstruct(index, pos))

\* C1: for an index holding N vectors and any k >= 1, search returns exactly
\* min(k, N) results: k results when k <= N, N results (no filler, no
\* repeated entry) when k > N
C1_ReturnsMinKN ==
    (Searched /\ k >= 1 /\ Len(q_vec) = index.d /\ Len(df_metadata.rows) = N) =>
        /\ raised = "none"
        /\ Len(results) = Min(k, N)

\* C2: every result carries the doc, table and column of the metadata row at
\* exactly the position whose vector produced the result's distance
C2_ResultsAligned ==
    (Searched /\ raised = "none") =>
        \A j \in 1 .. Len(results) :
            /\ I[j] \in 0 .. N - 1
            /\ I[j] < Len(df_metadata.rows)
            /\ results[j].distance = dist_to(I[j])
            /\ results[j].doc = df_metadata.rows[I[j] + 1].doc
            /\ results[j].table = df_metadata.rows[I[j] + 1].TABLE_NAME
            /\ results[j].column = df_metadata.rows[I[j] + 1].COLUMN_NAME

C7_InvalidK ==
    (Searched /\ k <= 0) => raised = "InvalidKError"

---------------------------------------------------------------------------
(* Claims on save_index and load_index *)

LoadDone == pc \in { "loaded", "reloaded" }
\* the vector count and the metadata row count a complete bundle file records
BundleVectors == disk.index[2]
BundleRows    == Len(disk.metadata.doc)

\* C3: load fails with CorruptBundleError whenever the bundle's vector count
\* differs from its metadata row count, and never returns a pair whose sizes
\* differ
C3_LoadRejectsMismatch ==
    /\ (LoadDone /\ disk.exists /\ disk.stop /\ BundleVectors # BundleRows)
           => raised = "CorruptBundleError"
    /\ (LoadDone /\ raised = "none")
           => loaded.index.ntotal = Len(loaded.df_metadata.rows)

\* C4: if save fails at any step, the destination holds exactly what it held
\* before the call
C4_SaveAtomic ==
    pc = "save_failed" => disk = diskBefore

\* C5: loading a bundle written by save yields an index of the same size with
\* the same vectors in the same positions (the same search results for every
\* probe) and a metadata table with the same rows in the same order and the
\* same column contents
C5_RoundTrip ==
    pc = "reloaded" =>
        /\ raised = "none"
        /\ loaded.index.d = index.d
        /\ loaded.index.ntotal = index.ntotal
        /\ \A pos \in 0 .. index.ntotal - 1 :
              reconstruct(loaded.index, pos) = reconstruct(index, pos)
        /\ \A q \in Queries, kk \in 1 .. MaxK :
              IndexFlatL2_search(loaded.index, q, kk) = IndexFlatL2_search(index, q, kk)
        /\ Len(loaded.df_metadata.rows) = Len(df_metadata.rows)
        /\ \A i \in 1 .. Len(df_metadata.rows) :
              /\ loaded.df_metadata.rows[i].doc = df_metadata.rows[i].doc
              /\ loaded.df_metadata.rows[i].TABLE_NAME = df_metadata.rows[i].TABLE_NAME
              /\ loaded.df_metadata.rows[i].COLUMN_NAME = df_metadata.rows[i].COLUMN_NAME

C5_Witness ==
    /\ pc = "reloaded" /\ raised = "none"
    /\ index.ntotal = MaxStored /\ index.d = 2
    /\ reconstruct(index, 0) # reconstruct(index, MaxStored - 1)
    /\ Len(df_metadata.rows) = MaxStored
    /\ df_metadata.rows[1] # df_metadata.rows[MaxStored]
    /\ df_metadata.labels # loaded.df_metadata.labels
    /\ diskBefore = OldBundle

---------------------------------------------------------------------------
(* Claims on the conversation memory *)

\* C9: get_recent_memory(n) returns the n most recent turns, oldest first:
\* for every n >= 0 and log of length L exactly the last min(n, L) records (no
\* records when n = 0), and an empty list when the log file does not exist
C9_RecentReturnsLastN ==
    pc = "recent" =>
        LET log == memory_file.records
            m == Min(n, Len(log))
        IN  /\ Len(recent) = m
            /\ \A i \in 1 .. Len(recent) : recent[i] = log[Len(log) - m + i]
            /\ (~memory_file.exists => recent = << >>)

\* C10: feedback given on the turn with id X is recorded on the log record
\* with id X and on no other record, also when several turns have the same
\* query and answer
C10_FeedbackOnClickedTurn ==
    pc = "feedback" =>
        /\ Len(memory_file.records) = Len(memBefore.records)
        /\ \A i \in 1 .. Len(memBefore.records) :
              memory_file.records[i] =
                  IF memBefore.records[i].id = clicked.id
                  THEN [ memBefore.records[i] EXCEPT
                            !.feedback_type = clicked.feedback_type,
                            !.comment = clicked.comment ]
                  ELSE memBefore.records[i]

====
